---- MODULE Spec2Model ----
(***************************************************************************)
(* Implicit scheduling of twistedcaldav (scheduling/implicit.py): one call *)
(* of ImplicitScheduler.doImplicitScheduling as a state machine.  Every    *)
(* yield on scheduler.doSchedulingViaPUT is a suspension point: the send   *)
(* is issued by one action and its response is handled by the next.        *)
(***************************************************************************)
EXTENDS Naturals, Sequences, FiniteSets, Bags, TLC

(* ------------------------------ bounds -------------------------------- *)

\* most ATTENDEE properties in one component
MaxAttendees == 2

(* ------------------------------ domains ------------------------------- *)

\* Python's None: no organizer, no recurrence-id (the master), no principal,
\* no parameter value
None == "None"

OrgAddr == "mailto:org"
OrgAlias == "urn:uuid:org"
ExtAddr == "mailto:ext"
AddrA == "mailto:a"
AddrB == "mailto:b"
AddrC == "mailto:c"

Addresses == {OrgAddr, OrgAlias, ExtAddr, AddrA, AddrB, AddrC}

\* values of the ORGANIZER property of a component (None: no such property)
OrganizerValues == {None, OrgAddr, ExtAddr}
\* values of the ATTENDEE properties of the calendar objects of a run
AttendeeAddrs == {OrgAlias, AddrA, AddrB}

RIDs == {"R1"}

PrincipalOrg == "/principals/org/"
PrincipalA == "/principals/a/"
PrincipalB == "/principals/b/"
PrincipalC == "/principals/c/"
Owners == {PrincipalOrg, PrincipalA}

Statuses == {"2.0", "5.1"}

(* ------------------- collaborators: the directory --------------------- *)

\* resource.principalForCalendarUserAddress(addr).principalURL(), None when
\* the address resolves to no principal
principalForCalendarUserAddress(addr) ==
    CASE addr \in {OrgAddr, OrgAlias} -> PrincipalOrg
      [] addr = AddrA -> PrincipalA
      [] addr = AddrB -> PrincipalB
      [] addr = AddrC -> PrincipalC
      [] OTHER -> None

\* principal.calendarUserAddresses()
calendarUserAddresses(principal) ==
    {a \in Addresses : principalForCalendarUserAddress(a) = principal}

(* ------------------- collaborators: the calendar object --------------- *)

AttendeeSets(addrs) == {s \in SUBSET addrs : Cardinality(s) <= MaxAttendees}

Components(orgs, addrs) == [organizer : orgs, attendees : AttendeeSets(addrs)]

\* A calendar object: a master component (recurrence-id None), overridden
\* components keyed by recurrence-id, and the master's EXDATEs (orgs, addrs
\* and rids: the values its properties are drawn from).
Calendars(orgs, addrs, rids) ==
    UNION {[comps : [{None} \cup ov -> Components(orgs, addrs)],
            exdates : SUBSET rids] :
           ov \in SUBSET rids}

\* the orders in which the components of a calendar object can be enumerated
ComponentOrders(cal) ==
    LET D == DOMAIN cal.comps
        n == Cardinality(D)
    IN {f \in [1..n -> D] : \A i, j \in 1..n : f[i] = f[j] => i = j}

\* Component.getOrganizersByInstance(): one (organizer, rid) per component
getOrganizersByInstance(cal, order) ==
    [i \in 1..Len(order) |-> <<cal.comps[order[i]].organizer, order[i]>>]

\* Component.getAttendeesByInstance(): one (attendee, rid) per ATTENDEE
\* property of each component
getAttendeesByInstance(cal) ==
    UNION {{<<a, r>> : a \in cal.comps[r].attendees} : r \in DOMAIN cal.comps}

\* Component.getComponentInstances(): the recurrence-ids of the components
getComponentInstances(cal) == DOMAIN cal.comps

\* masterComponent().properties("EXDATE") values
masterExdates(cal) == cal.exdates

\* masterComponent().getAttendeesByInstance()
masterAttendeesByInstance(cal) == {<<a, None>> : a \in cal.comps[None].attendees}

\* the value of a calendar field that holds no calendar object
NoCalendar == [comps |-> <<>>, exdates |-> {}]

(* ------------------- collaborators: iTIP and transport ---------------- *)

\* an iTIP message as handed to the transport: method, originator, the one
\* recipient, the calendar object it was generated from (the name of the
\* field passed to iTipGenerator), and the instances it is about (None: all)
Message(method, originator, recipient, source, rids) ==
    [method |-> method, originator |-> originator, recipient |-> recipient,
     source |-> source, rids |-> rids]

\* generateAttendeeRequest with originator and recipient of line 326 exchanged
generateAttendeeRequestToOrganizer(org, att) == Message("REQUEST", att, org, "calendar", {None})

\* iTipGenerator.generateAttendeeRequest(self.calendar, (attendee,))
generateAttendeeRequest(org, att) == Message("REQUEST", org, att, "calendar", {None})

\* generateAttendeeReply with force_decline left out of the call of line 427
generateAttendeeReplyNoDecline(att, org, force_decline) ==
    Message("REPLY", att, org, "calendar", {None})

\* iTipGenerator.generateAttendeeReply(self.calendar, self.attendee, force_decline):
\* sendToOrganizer sends it as REPLY, or as CANCEL when the attendee deletes
generateAttendeeReply(att, org, force_decline) ==
    Message(IF force_decline THEN "REPLY-CANCEL" ELSE "REPLY", att, org, "calendar", {None})

\* CalDAVScheduler.doSchedulingViaPUT(originator, (recipient,), itipmsg):
\* the responses it can give, one (recipient, status) entry per recipient
doSchedulingViaPUT(originator, recipient) ==
    {<<[recipient |-> recipient, status |-> s]>> : s \in Statuses}

\* the SCHEDULE-STATUS parameters of a calendar object: one per ATTENDEE
\* address and one for ORGANIZER, None when the parameter is absent
NoStatus == [ATTENDEE |-> [a \in Addresses |-> None], ORGANIZER |-> None]

\* Component.setParameterToValueForPropertyWithValue(paramname, paramvalue,
\* propname, propvalue) for paramname SCHEDULE-STATUS: every property
\* propname whose value is propvalue gets the parameter
setParameterToValueForPropertyWithValue(cal, params, paramvalue, propname, propvalue) ==
    IF propname = "ATTENDEE"
    THEN IF \E r \in DOMAIN cal.comps : propvalue \in cal.comps[r].attendees
         THEN [params EXCEPT !.ATTENDEE[propvalue] = paramvalue]
         ELSE params
    ELSE IF \E r \in DOMAIN cal.comps : propvalue = cal.comps[r].organizer
         THEN [params EXCEPT !.ORGANIZER = paramvalue]
         ELSE params

(* --------------------------- pure functions --------------------------- *)

SingleOrganizerError == "single-organizer"
ValidAttendeeChangeError == "valid-attendee-change"
NameError == "NameError"
AssertionError == "AssertionError"

\* scanOrganizers without the comparison of line 97: the last organizer wins
RECURSIVE scanOrganizersUnchecked(_, _)
scanOrganizersUnchecked(organizers, current) ==
    IF organizers = <<>>
    THEN current
    ELSE scanOrganizersUnchecked(Tail(organizers),
                                 IF Head(organizers)[1] # None
                                 THEN Head(organizers)[1]
                                 ELSE current)

\* extractCalendarData, the loop over getOrganizersByInstance(): the one
\* organizer, or SingleOrganizerError where the code raises
RECURSIVE scanOrganizers(_, _)
scanOrganizers(organizers, current) ==
    IF organizers = <<>>
    THEN current
    ELSE LET o == Head(organizers)[1]
         IN IF current # None
            THEN IF o # current
                 THEN SingleOrganizerError
                 ELSE scanOrganizers(Tail(organizers), current)
            ELSE scanOrganizers(Tail(organizers), o)

\* attendeesOf that keeps the master's attendees only
attendeesOfMaster(byInstance) == {item[1] : item \in {i \in byInstance : i[2] = None}}

\* extractCalendarData, the set built from attendeesByInstance
attendeesOf(byInstance) == {item[1] : item \in byInstance}

\* isOrganizerScheduling without the owner test of line 128
isOrganizerSchedulingAnyOwner(org, owner) ==
    org # None /\ principalForCalendarUserAddress(org) # None

\* isOrganizerScheduling's result
isOrganizerScheduling(org, owner) ==
    IF org = None
    THEN FALSE
    ELSE IF principalForCalendarUserAddress(org) = None
         THEN FALSE
         ELSE IF owner # principalForCalendarUserAddress(org)
              THEN FALSE
              ELSE TRUE

\* ownerAttendees without the organizer test of line 136
ownerAttendeesNoOrganizer(org, atts, owner) ==
    {a \in atts : principalForCalendarUserAddress(a) # None
                  /\ principalForCalendarUserAddress(a) = owner}

\* ownerAttendees without the comparison with the owner of line 142
ownerAttendeesAnyPrincipal(org, atts, owner) ==
    IF org = None
    THEN {}
    ELSE {a \in atts : principalForCalendarUserAddress(a) # None}

\* isAttendeeScheduling: the attendees its loop can return TRUE on (the loop
\* runs over a set, so any of them can come first); none: it returns FALSE
ownerAttendees(org, atts, owner) ==
    IF org = None
    THEN {}
    ELSE {a \in atts : principalForCalendarUserAddress(a) # None
                        /\ principalForCalendarUserAddress(a) = owner}

\* findRemovedAttendees without "or rid in addedexdates" of line 245
findRemovedAttendeesNoExdate(oldcal, cal) ==
    LET mappedOld == getAttendeesByInstance(oldcal)
        mappedNew == getAttendeesByInstance(cal)
        removedInstances == getComponentInstances(oldcal) \ getComponentInstances(cal)
        addedexdates == masterExdates(cal) \ masterExdates(oldcal)
        removed == {item \in mappedOld :
                      /\ item \notin mappedNew
                      /\ IF item[2] = None \/ item[2] \notin removedInstances
                         THEN TRUE
                         ELSE <<item[1], None>> \notin mappedNew}
        excluded == {<<m[1], exdate>> : m \in masterAttendeesByInstance(oldcal),
                                         exdate \in {x \in addedexdates : x \notin removedInstances}}
    IN removed \cup excluded

\* findRemovedAttendees without "if exdate not in removedInstances" of line 254
findRemovedAttendeesAnyExdate(oldcal, cal) ==
    LET mappedOld == getAttendeesByInstance(oldcal)
        mappedNew == getAttendeesByInstance(cal)
        removedInstances == getComponentInstances(oldcal) \ getComponentInstances(cal)
        addedexdates == masterExdates(cal) \ masterExdates(oldcal)
        removed == {item \in mappedOld :
                      /\ item \notin mappedNew
                      /\ IF item[2] = None \/ item[2] \notin removedInstances
                         THEN TRUE
                         ELSE <<item[1], None>> \notin mappedNew \/ item[2] \in addedexdates}
        excluded == {<<m[1], exdate>> : m \in masterAttendeesByInstance(oldcal),
                                         exdate \in addedexdates}
    IN removed \cup excluded

\* findRemovedAttendees without "if item not in mappedNew" of line 230
findRemovedAttendeesAllOld(oldcal, cal) ==
    LET mappedOld == getAttendeesByInstance(oldcal)
        mappedNew == getAttendeesByInstance(cal)
        removedInstances == getComponentInstances(oldcal) \ getComponentInstances(cal)
        addedexdates == masterExdates(cal) \ masterExdates(oldcal)
        removed == {item \in mappedOld :
                      IF item[2] = None \/ item[2] \notin removedInstances
                      THEN TRUE
                      ELSE <<item[1], None>> \notin mappedNew \/ item[2] \in addedexdates}
        excluded == {<<m[1], exdate>> : m \in masterAttendeesByInstance(oldcal),
                                         exdate \in {x \in addedexdates : x \notin removedInstances}}
    IN removed \cup excluded

\* findRemovedAttendees: the value it leaves in cancelledAttendees
findRemovedAttendees(oldcal, cal) ==
    LET mappedOld == getAttendeesByInstance(oldcal)
        mappedNew == getAttendeesByInstance(cal)
        removedInstances == getComponentInstances(oldcal) \ getComponentInstances(cal)
        addedexdates == masterExdates(cal) \ masterExdates(oldcal)
        removed == {item \in mappedOld :
                      /\ item \notin mappedNew
                      /\ IF item[2] = None \/ item[2] \notin removedInstances
                         THEN TRUE
                         ELSE <<item[1], None>> \notin mappedNew \/ item[2] \in addedexdates}
        excluded == {<<m[1], exdate>> : m \in masterAttendeesByInstance(oldcal),
                                         exdate \in {x \in addedexdates : x \notin removedInstances}}
    IN removed \cup excluded

\* doImplicitOrganizer, deleting: "Cancel all attendees"
cancelAll(atts) == {<<a, None>> : a \in atts}

\* isChangeInsignificant with the differ's answer negated
isChangeInsignificantNegated(differ) == ~differ

\* isChangeInsignificant: what it returns for the differ's answer
isChangeInsignificant(differ) == differ

\* processCancels: the dict aggregated, attendee -> the rids cancelled for it
aggregated(cancelled) ==
    [att \in {item[1] : item \in cancelled} |->
        {item[2] : item \in {c \in cancelled : c[1] = att}}]

\* generateCancel without the test "if None in rids" of line 287
generateCancelEachRid(org, att, rids) ==
    Message("CANCEL", org, att, "oldcalendar", rids)

\* processCancels: the CANCEL generated for one attendee
generateCancel(org, att, rids) ==
    IF None \in rids
    THEN Message("CANCEL", org, att, "oldcalendar", {None})
    ELSE Message("CANCEL", org, att, "oldcalendar", rids)

\* isOrganizerAddress without the test: nothing is held back
isOrganizerAddressNever(att, orgPrincipal) == FALSE

\* processCancels / processRequests: "Don't send message back to the ORGANIZER"
isOrganizerAddress(att, orgPrincipal) == att \in calendarUserAddresses(orgPrincipal)

\* handleSchedulingResponse raising on a status that is not a success
handleSchedulingResponseRaising(cal, params, response, is_organizer) ==
    IF Len(response) = 0
    THEN [error |-> NameError, calendar |-> cal, params |-> params]
    ELSE LET recipient == response[Len(response)].recipient
             status == response[Len(response)].status
         IN IF status # "2.0"
            THEN [error |-> "dispatch-failure", calendar |-> cal, params |-> params]
            ELSE [error |-> None,
                  calendar |-> cal,
                  params |-> setParameterToValueForPropertyWithValue(
                                 cal, params, status,
                                 IF is_organizer THEN "ATTENDEE" ELSE "ORGANIZER",
                                 recipient)]

\* handleSchedulingResponse taking the recipient's ATTENDEE properties out of
\* the object it marks
handleSchedulingResponseDropping(cal, params, response, is_organizer) ==
    IF Len(response) = 0
    THEN [error |-> NameError, calendar |-> cal, params |-> params]
    ELSE LET recipient == response[Len(response)].recipient
             status == response[Len(response)].status
         IN [error |-> None,
             calendar |-> [cal EXCEPT !.comps =
                              [r \in DOMAIN cal.comps |->
                                  [cal.comps[r] EXCEPT !.attendees = @ \ {recipient}]]],
             params |-> setParameterToValueForPropertyWithValue(
                            cal, params, status,
                            IF is_organizer THEN "ATTENDEE" ELSE "ORGANIZER",
                            recipient)]

\* handleSchedulingResponse with the property names of line 343 swapped
handleSchedulingResponseSwapped(cal, params, response, is_organizer) ==
    IF Len(response) = 0
    THEN [error |-> NameError, calendar |-> cal, params |-> params]
    ELSE LET recipient == response[Len(response)].recipient
             status == response[Len(response)].status
         IN [error |-> None,
             calendar |-> cal,
             params |-> setParameterToValueForPropertyWithValue(
                            cal, params, status,
                            IF is_organizer THEN "ORGANIZER" ELSE "ATTENDEE",
                            recipient)]

\* handleSchedulingResponse: self.calendar and its parameters after it, and
\* the error it raises (None: it returns).  Its one call on self.calendar
\* is setParameterToValueForPropertyWithValue.  The loop only fills the local dict; the call
\* after the loop uses the loop's last recipient and status, which are
\* unbound when the response has no entry.
handleSchedulingResponse(cal, params, response, is_organizer) ==
    IF Len(response) = 0
    THEN [error |-> NameError, calendar |-> cal, params |-> params]
    ELSE LET recipient == response[Len(response)].recipient
             status == response[Len(response)].status
         IN [error |-> None,
             calendar |-> cal,
             params |-> setParameterToValueForPropertyWithValue(
                            cal, params, status,
                            IF is_organizer THEN "ATTENDEE" ELSE "ORGANIZER",
                            recipient)]

\* attendeeChange without the test on no_itip of line 363: every allowed
\* change is replied to
attendeeChangeAlwaysReply(change_allowed, no_itip) ==
    IF ~change_allowed
    THEN ValidAttendeeChangeError
    ELSE "significant"

\* attendeeChange without the test of line 409: any change is let through
attendeeChangeUnchecked(change_allowed, no_itip) ==
    IF no_itip THEN "insignificant" ELSE "significant"

\* isAttendeeChangeInsignificant and the test on its result in
\* doImplicitAttendee: the error raised when attendeeMerge does not allow
\* the change, else whether the change needs a reply to the organizer
attendeeChange(change_allowed, no_itip) ==
    IF ~change_allowed
    THEN ValidAttendeeChangeError
    ELSE IF no_itip THEN "insignificant" ELSE "significant"

(* ------------------- twext/web2/log.py: _LogByteCounter --------------- *)

MaxChunks == 2
MaxChunkLen == 2
MaxCalls == 4

\* what stream.read() gives: a string of bytes, or None at the end of the
\* stream
Data(bytes) == [isNone |-> FALSE, bytes |-> bytes]
NoData == [isNone |-> TRUE, bytes |-> <<>>]

\* the strings a chunk can be, the empty string among them
Chunks == {[i \in 1..k |-> "x"] : k \in 0..MaxChunkLen}

\* the streams of at most n chunks
RECURSIVE Streams(_)
Streams(n) ==
    IF n = 0
    THEN {<<>>}
    ELSE LET shorter == Streams(n - 1)
         IN shorter \cup {Append(s, c) : s \in shorter, c \in Chunks}

\* the name of the callback logFilter hands to _LogByteCounter
LogCallback == "_log"

\* _callback clearing self.done only after the end of the stream was seen twice
_callbackKeepingDone(data, counter) ==
    IF data.isNone
    THEN IF counter.done # None
         THEN [done |-> IF counter.doneCalls = <<>> THEN counter.done ELSE None,
               len |-> counter.len,
               doneCalls |-> Append(counter.doneCalls, <<TRUE, counter.len>>)]
         ELSE counter
    ELSE [counter EXCEPT !.len = @ + Len(data.bytes)]

\* _LogByteCounter._callback(data): self.done, self.len and the calls of
\* the done callback after it
_callback(data, counter) ==
    IF data.isNone
    THEN IF counter.done # None
         THEN [done |-> None, len |-> counter.len,
               doneCalls |-> Append(counter.doneCalls, <<TRUE, counter.len>>)]
         ELSE counter
    ELSE [counter EXCEPT !.len = @ + Len(data.bytes)]

\* _LogByteCounter.close(), before its self.stream.close()
closeCounter(counter) ==
    IF counter.done # None
    THEN [done |-> None, len |-> counter.len,
          doneCalls |-> Append(counter.doneCalls, <<FALSE, counter.len>>)]
    ELSE counter

(* ------------------------------- state -------------------------------- *)

VARIABLES
    pc,                  \* the position of the call
    calendar,            \* self.calendar (its content; the parameters are apart)
    scheduleStatus,      \* the SCHEDULE-STATUS parameters of self.calendar
    deleting,            \* self.deleting
    calendar_owner,      \* str(self.calendar_owner)
    organizer,           \* self.organizer
    attendeesByInstance, \* self.attendeesByInstance
    attendees,           \* self.attendees
    organizerPrincipal,  \* self.organizerPrincipal (its principalURL)
    attendee,            \* self.attendee
    oldcalendar,         \* self.oldcalendar: None, "calendar" (the object being
                         \* deleted) or "resource" (the stored object)
    organizer_calendar,  \* self.organizer_calendar (None or "found")
    cancelledAttendees,  \* self.cancelledAttendees
    cancelQueue,         \* processCancels: keys of aggregated still to iterate
    requestQueue,        \* processRequests: items of attendeesByInstance still to iterate
    outstanding,         \* the sends issued and not yet answered
    sent,                \* bag of every message handed to the transport
    response,            \* the last response handed to handleSchedulingResponse
    called,              \* the steps and collaborators the call has run
    role,                \* the branch doImplicitScheduling took at lines 81-86
    organizerDiff,       \* what iCalDiff.organizerDiff() answered
    attendeeDiff,        \* what iCalDiff.attendeeMerge() answered
    resource,            \* self.resource.iCalendar(), where a specification
                         \* fixes the stored object before the call
    result,              \* doImplicitScheduling's return value
    error,               \* the error the call raised, None if none
    stream,              \* _LogByteCounter: what self.stream has still to give
    done,                \* _LogByteCounter: self.done
    len,                 \* _LogByteCounter: self.len
    deferred,            \* _LogByteCounter: what the Deferreds that read()
                         \* returned and that have not fired will give
    doneCalls,           \* the calls of the done callback: (success, length)
    events               \* what read() and close() were called for: the data
                         \* each read gave, in the order they gave it

vars == <<pc, calendar, scheduleStatus, deleting, calendar_owner, organizer,
          attendeesByInstance, attendees, organizerPrincipal, attendee,
          oldcalendar, organizer_calendar, cancelledAttendees, cancelQueue,
          requestQueue, outstanding, sent, response, called, role,
          organizerDiff, attendeeDiff, resource, result, error,
          stream, done, len, deferred, doneCalls, events>>

Unset == "unset"

\* the fields of a _LogByteCounter and what was done with it
byteCounter == <<stream, done, len, deferred, doneCalls, events>>

\* no _LogByteCounter has been made
NoByteCounter ==
    /\ stream = <<>>
    /\ done = None
    /\ len = 0
    /\ deferred = <<>>
    /\ doneCalls = <<>>
    /\ events = <<>>

\* the fields of the scheduler and the calendar object it was handed
input == <<calendar, deleting, calendar_owner>>
extracted == <<organizer, attendeesByInstance, attendees>>
roles == <<organizerPrincipal, attendee, role>>
organizerState == <<oldcalendar, cancelledAttendees, cancelQueue, requestQueue,
                    organizerDiff, resource>>
dispatch == <<outstanding, sent, response, scheduleStatus>>

Init ==
    /\ pc = "idle"
    /\ calendar = NoCalendar
    /\ scheduleStatus = NoStatus
    /\ deleting = FALSE
    /\ calendar_owner = Unset
    /\ organizer = Unset
    /\ attendeesByInstance = {}
    /\ attendees = {}
    /\ organizerPrincipal = Unset
    /\ attendee = Unset
    /\ oldcalendar = Unset
    /\ organizer_calendar = Unset
    /\ cancelledAttendees = {}
    /\ cancelQueue = {}
    /\ requestQueue = {}
    /\ outstanding = {}
    /\ sent = EmptyBag
    /\ response = <<>>
    /\ called = {}
    /\ role = Unset
    /\ organizerDiff = Unset
    /\ attendeeDiff = Unset
    /\ resource = NoCalendar
    /\ result = Unset
    /\ error = None
    /\ NoByteCounter

(* ------------------------------ actions ------------------------------- *)

\* a raise that nothing in the call catches
raise(err) ==
    /\ pc' = "failed"
    /\ error' = err

\* doImplicitScheduling, lines 67-75: the arguments are stored
doImplicitScheduling ==
    /\ pc = "idle"
    /\ \E cal \in Calendars(OrganizerValues, AttendeeAddrs, RIDs),
          owner \in Owners, del \in BOOLEAN :
          /\ calendar' = cal
          /\ calendar_owner' = owner
          /\ deleting' = del
    /\ pc' = "extractCalendarData"
    /\ UNCHANGED byteCounter
    /\ UNCHANGED <<extracted, roles, organizerState, dispatch, organizer_calendar, attendeeDiff,
                   called, result, error>>

\* extractCalendarData
extractCalendarData ==
    /\ pc = "extractCalendarData"
    /\ called' = called \cup {"extractCalendarData"}
    /\ \E order \in ComponentOrders(calendar) :
          LET org == scanOrganizers(getOrganizersByInstance(calendar, order), None)
          IN IF org = SingleOrganizerError
             THEN /\ raise(SingleOrganizerError)
                  /\ UNCHANGED extracted
             ELSE /\ organizer' = org
                  /\ attendeesByInstance' = getAttendeesByInstance(calendar)
                  /\ attendees' = attendeesOf(getAttendeesByInstance(calendar))
                  /\ pc' = "classify"
                  /\ UNCHANGED error
    /\ UNCHANGED byteCounter
    /\ UNCHANGED <<input, roles, organizerState, dispatch, organizer_calendar, attendeeDiff, result>>

\* doImplicitScheduling, lines 80-86: the role of the owner
classify ==
    /\ pc = "classify"
    /\ IF isOrganizerScheduling(organizer, calendar_owner)
       THEN /\ called' = called \cup {"isOrganizerScheduling"}
            /\ organizerPrincipal' = principalForCalendarUserAddress(organizer)
            /\ role' = "organizer"
            /\ pc' = "doImplicitOrganizer"
            /\ UNCHANGED <<attendee, result>>
       ELSE /\ called' = called \cup {"isOrganizerScheduling", "isAttendeeScheduling"}
            /\ organizerPrincipal' = IF organizer = None
                                     THEN organizerPrincipal
                                     ELSE principalForCalendarUserAddress(organizer)
            /\ IF ownerAttendees(organizer, attendees, calendar_owner) # {}
               THEN /\ attendee' \in ownerAttendees(organizer, attendees, calendar_owner)
                    /\ role' = "attendee"
                    /\ pc' = "doImplicitAttendee"
                    /\ UNCHANGED result
               ELSE /\ role' = None
                    /\ pc' = "done"
                    /\ result' = None
                    /\ UNCHANGED attendee
    /\ UNCHANGED byteCounter
    /\ UNCHANGED <<input, extracted, organizerState, dispatch, organizer_calendar, attendeeDiff, error>>

\* the call returns self.calendar
returnCalendar ==
    /\ pc' = "done"
    /\ result' = "calendar"

\* a message is handed to scheduler.doSchedulingViaPUT and the call suspends
send(msg) ==
    /\ outstanding' = outstanding \cup {msg}
    /\ sent' = sent (+) SetToBag({msg})

\* the transport answers the outstanding send; handleSchedulingResponse
\* writes the status back and the call resumes at `next`
receive(is_organizer, next) ==
    \E msg \in outstanding :
       \E resp \in doSchedulingViaPUT(msg.originator, msg.recipient) :
          LET r == handleSchedulingResponse(calendar, scheduleStatus, resp, is_organizer)
          IN /\ outstanding' = outstanding \ {msg}
             /\ response' = resp
             /\ calendar' = r.calendar
             /\ scheduleStatus' = r.params
             /\ called' = called \cup {"handleSchedulingResponse"}
             /\ IF r.error # None
                THEN raise(r.error)
                ELSE /\ pc' = next
                     /\ UNCHANGED error

\* doImplicitOrganizer, then scheduleWithAttendees and processCancels up to
\* its loop: cancelQueue holds the keys of aggregated
doImplicitOrganizer ==
    /\ pc = "doImplicitOrganizer"
    /\ \/ /\ deleting
          /\ oldcalendar' = "calendar"
          /\ cancelledAttendees' = cancelAll(attendees)
          /\ cancelQueue' = DOMAIN aggregated(cancelAll(attendees))
          /\ called' = called \cup {"doImplicitOrganizer"}
          /\ pc' = "processCancels"
          /\ UNCHANGED <<organizerDiff, result>>
       \/ /\ ~deleting
          \* self.resource.exists(): old is self.resource.iCalendar()
          /\ \E old \in Calendars({organizer}, AttendeeAddrs, RIDs),
                differ \in BOOLEAN :
                /\ oldcalendar' = "resource"
                /\ organizerDiff' = IF differ THEN "insignificant" ELSE "significant"
                /\ IF isChangeInsignificant(differ)
                   THEN /\ called' = called \cup {"doImplicitOrganizer", "organizerDiff"}
                        /\ returnCalendar
                        /\ UNCHANGED <<cancelledAttendees, cancelQueue>>
                   ELSE /\ called' = called \cup {"doImplicitOrganizer", "organizerDiff",
                                                  "findRemovedAttendees"}
                        /\ cancelledAttendees' = findRemovedAttendees(old, calendar)
                        /\ cancelQueue' = DOMAIN aggregated(findRemovedAttendees(old, calendar))
                        /\ pc' = "processCancels"
                        /\ UNCHANGED result
       \/ /\ ~deleting
          \* not self.resource.exists()
          /\ oldcalendar' = None
          /\ cancelledAttendees' = {}
          /\ cancelQueue' = {}
          /\ called' = called \cup {"doImplicitOrganizer"}
          /\ pc' = "processCancels"
          /\ UNCHANGED <<organizerDiff, result>>
    /\ UNCHANGED byteCounter
    /\ UNCHANGED <<input, extracted, roles, requestQueue, resource, dispatch,
                   organizer_calendar, attendeeDiff, error>>

\* processCancels: the loop comes to one of the organizer's own addresses
processCancelsSkip ==
    /\ pc = "processCancels"
    /\ \E att \in cancelQueue :
          /\ isOrganizerAddress(att, organizerPrincipal)
          /\ cancelQueue' = cancelQueue \ {att}
    /\ UNCHANGED byteCounter
    /\ UNCHANGED <<pc, input, extracted, roles, oldcalendar, cancelledAttendees,
                   requestQueue, organizerDiff, resource, dispatch, organizer_calendar, attendeeDiff, called, result, error>>

\* processCancels: the loop comes to another attendee and sends its CANCEL
processCancelsSend ==
    /\ pc = "processCancels"
    /\ \E att \in cancelQueue :
          /\ ~isOrganizerAddress(att, organizerPrincipal)
          /\ cancelQueue' = cancelQueue \ {att}
          /\ send(generateCancel(organizer, att, aggregated(cancelledAttendees)[att]))
    /\ pc' = "awaitCancel"
    /\ UNCHANGED byteCounter
    /\ UNCHANGED <<input, extracted, roles, oldcalendar, cancelledAttendees,
                   requestQueue, organizerDiff, resource, response, scheduleStatus, organizer_calendar, attendeeDiff,
                   called, result, error>>

\* processCancels: the response to a CANCEL
processCancelsResponse ==
    /\ pc = "awaitCancel"
    /\ receive(TRUE, "processCancels")
    /\ UNCHANGED byteCounter
    /\ UNCHANGED <<deleting, calendar_owner, extracted, roles, organizerState, sent,
                   organizer_calendar, attendeeDiff, result>>

\* scheduleWithAttendees without the test "if not self.deleting" of line 264
scheduleWithAttendeesAlways ==
    /\ pc = "processCancels"
    /\ cancelQueue = {}
    /\ pc' = "processRequests"
    /\ requestQueue' = attendeesByInstance
    /\ UNCHANGED byteCounter
    /\ UNCHANGED <<input, extracted, roles, oldcalendar, cancelledAttendees,
                   cancelQueue, organizerDiff, resource, dispatch, organizer_calendar,
                   attendeeDiff, called, result, error>>

\* scheduleWithAttendees: processCancels is over
scheduleWithAttendees ==
    /\ pc = "processCancels"
    /\ cancelQueue = {}
    /\ IF ~deleting
       THEN /\ pc' = "processRequests"
            /\ requestQueue' = attendeesByInstance
            /\ UNCHANGED result
       ELSE /\ returnCalendar
            /\ UNCHANGED requestQueue
    /\ UNCHANGED byteCounter
    /\ UNCHANGED <<input, extracted, roles, oldcalendar, cancelledAttendees,
                   cancelQueue, organizerDiff, resource, dispatch, organizer_calendar, attendeeDiff, called, error>>

\* processRequests: the loop comes to one of the organizer's own addresses
processRequestsSkip ==
    /\ pc = "processRequests"
    /\ \E item \in requestQueue :
          /\ isOrganizerAddress(item[1], organizerPrincipal)
          /\ requestQueue' = requestQueue \ {item}
    /\ UNCHANGED byteCounter
    /\ UNCHANGED <<pc, input, extracted, roles, oldcalendar, cancelledAttendees,
                   cancelQueue, organizerDiff, resource, dispatch, organizer_calendar, attendeeDiff, called, result, error>>

\* processRequestsSend without the yield of line 326: the loop goes on
\* while the send is outstanding
processRequestsSendNoYield ==
    /\ pc = "processRequests"
    /\ \E item \in requestQueue :
          /\ ~isOrganizerAddress(item[1], organizerPrincipal)
          /\ requestQueue' = requestQueue \ {item}
          /\ send(generateAttendeeRequest(organizer, item[1]))
    /\ UNCHANGED byteCounter
    /\ UNCHANGED <<pc, input, extracted, roles, oldcalendar, cancelledAttendees,
                   cancelQueue, organizerDiff, resource, response, scheduleStatus,
                   organizer_calendar, attendeeDiff, called, result, error>>

\* processRequests: the loop comes to another attendee and sends its REQUEST
processRequestsSend ==
    /\ pc = "processRequests"
    /\ \E item \in requestQueue :
          /\ ~isOrganizerAddress(item[1], organizerPrincipal)
          /\ requestQueue' = requestQueue \ {item}
          /\ send(generateAttendeeRequest(organizer, item[1]))
    /\ pc' = "awaitRequest"
    /\ UNCHANGED byteCounter
    /\ UNCHANGED <<input, extracted, roles, oldcalendar, cancelledAttendees,
                   cancelQueue, organizerDiff, resource, response, scheduleStatus, organizer_calendar, attendeeDiff,
                   called, result, error>>

\* processRequests: the response to a REQUEST
processRequestsResponse ==
    /\ pc = "awaitRequest"
    /\ receive(TRUE, "processRequests")
    /\ UNCHANGED byteCounter
    /\ UNCHANGED <<deleting, calendar_owner, extracted, roles, organizerState, sent,
                   organizer_calendar, attendeeDiff, result>>

\* processRequests is over: doImplicitScheduling returns the calendar
processRequestsEnd ==
    /\ pc = "processRequests"
    /\ requestQueue = {}
    /\ returnCalendar
    /\ UNCHANGED byteCounter
    /\ UNCHANGED <<input, extracted, roles, organizerState, dispatch,
                   organizer_calendar, attendeeDiff, called, error>>

\* doImplicitAttendee, up to its first yield
doImplicitAttendee ==
    /\ pc = "doImplicitAttendee"
    /\ called' = called \cup {"doImplicitAttendee"}
    /\ IF deleting
       THEN \* scheduleCancelWithOrganizer, sendToOrganizer
            /\ send(generateAttendeeReply(attendee, organizer, TRUE))
            /\ pc' = "awaitOrganizer"
       ELSE /\ pc' = "getOrganizersCopy"
            /\ UNCHANGED <<outstanding, sent>>
    /\ UNCHANGED byteCounter
    /\ UNCHANGED <<input, extracted, roles, organizerState, response, scheduleStatus,
                   organizer_calendar, attendeeDiff, result, error>>

\* getOrganizersCopy and the assert that follows it
getOrganizersCopy ==
    /\ pc = "getOrganizersCopy"
    /\ called' = called \cup {"getOrganizersCopy"}
    /\ \E copy \in IF organizerPrincipal # None THEN {None, "found"} ELSE {None} :
          /\ organizer_calendar' = copy
          /\ IF copy = None
             THEN raise(AssertionError)
             ELSE /\ pc' = "isAttendeeChangeInsignificant"
                  /\ UNCHANGED error
    /\ UNCHANGED byteCounter
    /\ UNCHANGED <<input, extracted, roles, organizerState, dispatch, attendeeDiff,
                   result>>

\* isAttendeeChangeInsignificant and what doImplicitAttendee does with it
isAttendeeChangeInsignificant ==
    /\ pc = "isAttendeeChangeInsignificant"
    /\ called' = called \cup {"attendeeMerge"}
    /\ \E change_allowed \in BOOLEAN, no_itip \in BOOLEAN :
          LET change == attendeeChange(change_allowed, no_itip)
          IN /\ attendeeDiff' = IF change_allowed
                                THEN IF no_itip THEN "allowed, no iTIP" ELSE "allowed, iTIP"
                                ELSE "not allowed"
             /\ IF change = ValidAttendeeChangeError
                THEN /\ raise(ValidAttendeeChangeError)
                     /\ UNCHANGED <<outstanding, sent, result>>
                ELSE IF change = "insignificant"
                     THEN /\ returnCalendar
                          /\ UNCHANGED <<outstanding, sent, error>>
                     ELSE \* scheduleWithOrganizer, sendToOrganizer
                          /\ send(generateAttendeeReply(attendee, organizer, FALSE))
                          /\ pc' = "awaitOrganizer"
                          /\ UNCHANGED <<result, error>>
    /\ UNCHANGED byteCounter
    /\ UNCHANGED <<input, extracted, roles, organizerState, response, scheduleStatus,
                   organizer_calendar>>

\* sendToOrganizer: the response to the reply; doImplicitScheduling returns
sendToOrganizerResponse ==
    /\ pc = "awaitOrganizer"
    /\ receive(FALSE, "done")
    /\ result' = IF pc' = "done" THEN "calendar" ELSE result
    /\ UNCHANGED byteCounter
    /\ UNCHANGED <<deleting, calendar_owner, extracted, roles, organizerState, sent,
                   organizer_calendar, attendeeDiff>>

Next ==
    \/ doImplicitScheduling
    \/ extractCalendarData
    \/ classify
    \/ doImplicitOrganizer
    \/ processCancelsSkip
    \/ processCancelsSend
    \/ processCancelsResponse
    \/ scheduleWithAttendees
    \/ processRequestsSkip
    \/ processRequestsSend
    \/ processRequestsResponse
    \/ processRequestsEnd
    \/ doImplicitAttendee
    \/ getOrganizersCopy
    \/ isAttendeeChangeInsignificant
    \/ sendToOrganizerResponse

Spec == Init /\ [][Next]_vars

(* ------------- findRemovedAttendees on its own, over a wider ---------- *)
(* ------------- range of stored and incoming calendar objects ---------- *)

ResolverAddrs == {AddrA, AddrB, AddrC}

InitResolver ==
    /\ pc = "findRemovedAttendees"
    /\ calendar \in Calendars({OrgAddr}, ResolverAddrs, RIDs)
    /\ resource \in Calendars({OrgAddr}, ResolverAddrs, RIDs)
    /\ scheduleStatus = NoStatus
    /\ deleting = FALSE
    /\ calendar_owner = PrincipalOrg
    /\ organizer = OrgAddr
    /\ attendeesByInstance = getAttendeesByInstance(calendar)
    /\ attendees = attendeesOf(getAttendeesByInstance(calendar))
    /\ organizerPrincipal = PrincipalOrg
    /\ attendee = Unset
    /\ oldcalendar = "resource"
    /\ organizer_calendar = Unset
    /\ cancelledAttendees = {}
    /\ cancelQueue = {}
    /\ requestQueue = {}
    /\ outstanding = {}
    /\ sent = EmptyBag
    /\ response = <<>>
    /\ called = {"extractCalendarData", "isOrganizerScheduling", "organizerDiff"}
    /\ role = "organizer"
    /\ organizerDiff = "significant"
    /\ attendeeDiff = Unset
    /\ result = Unset
    /\ error = None
    /\ NoByteCounter

\* doImplicitOrganizer, line 176: findRemovedAttendees on the stored object
\* and the incoming one
findRemovedAttendeesStep ==
    /\ pc = "findRemovedAttendees"
    /\ cancelledAttendees' = findRemovedAttendees(resource, calendar)
    /\ called' = called \cup {"findRemovedAttendees"}
    /\ pc' = "processCancels"
    /\ UNCHANGED byteCounter
    /\ UNCHANGED <<input, extracted, roles, oldcalendar, cancelQueue, requestQueue,
                   organizerDiff, resource, dispatch, organizer_calendar, attendeeDiff, result, error>>

SpecResolver == InitResolver /\ [][findRemovedAttendeesStep]_vars

(* ------------- handleSchedulingResponse on its own, over -------------- *)
(* ------------- responses of any number of entries --------------------- *)

MaxResponses == 2

WriteBackAddrs == {AddrA, AddrB}

\* the responses of at most n (recipient, status) entries
RECURSIVE Responses(_)
Responses(n) ==
    IF n = 0
    THEN {<<>>}
    ELSE LET shorter == Responses(n - 1)
         IN shorter \cup
            {Append(r, [recipient |-> a, status |-> s]) :
                r \in shorter, a \in WriteBackAddrs \cup {OrgAddr}, s \in Statuses}

\* a send is outstanding, in processRequests or in sendToOrganizer, and the
\* transport has its response ready
InitWriteBack ==
    /\ pc \in {"awaitRequest", "awaitOrganizer"}
    /\ calendar \in Calendars({OrgAddr}, WriteBackAddrs, {})
    /\ response \in Responses(MaxResponses)
    /\ scheduleStatus = NoStatus
    /\ deleting = FALSE
    /\ calendar_owner = IF pc = "awaitRequest" THEN PrincipalOrg ELSE PrincipalA
    /\ organizer = OrgAddr
    /\ attendeesByInstance = getAttendeesByInstance(calendar)
    /\ attendees = attendeesOf(getAttendeesByInstance(calendar))
    /\ organizerPrincipal = PrincipalOrg
    /\ attendee = IF pc = "awaitRequest" THEN Unset ELSE AddrA
    /\ oldcalendar = IF pc = "awaitRequest" THEN None ELSE Unset
    /\ organizer_calendar = IF pc = "awaitRequest" THEN Unset ELSE "found"
    /\ cancelledAttendees = {}
    /\ cancelQueue = {}
    /\ requestQueue = {}
    /\ outstanding = {}
    /\ sent = EmptyBag
    /\ called = {}
    /\ role = IF pc = "awaitRequest" THEN "organizer" ELSE "attendee"
    /\ organizerDiff = Unset
    /\ attendeeDiff = IF pc = "awaitRequest" THEN Unset ELSE "allowed, iTIP"
    /\ resource = NoCalendar
    /\ result = Unset
    /\ error = None
    /\ NoByteCounter

\* handleSchedulingResponse(response, is_organizer) on the response the
\* transport gave
handleSchedulingResponseStep ==
    /\ pc \in {"awaitRequest", "awaitOrganizer"}
    /\ LET r == handleSchedulingResponse(calendar, scheduleStatus, response,
                                         pc = "awaitRequest")
       IN /\ calendar' = r.calendar
          /\ scheduleStatus' = r.params
          /\ called' = called \cup {"handleSchedulingResponse"}
          /\ IF r.error # None
             THEN raise(r.error)
             ELSE /\ pc' = "written"
                  /\ UNCHANGED error
    /\ UNCHANGED byteCounter
    /\ UNCHANGED <<deleting, calendar_owner, extracted, roles, organizerState,
                   outstanding, sent, response, organizer_calendar, attendeeDiff,
                   result>>

SpecWriteBack == InitWriteBack /\ [][handleSchedulingResponseStep]_vars

(* ------------- _LogByteCounter on its own: read() and close() --------- *)
(* ------------- in any order on a stream of any chunks ----------------- *)

\* ImplicitScheduler is not in use
NoScheduler ==
    /\ pc = "idle"
    /\ calendar = NoCalendar
    /\ scheduleStatus = NoStatus
    /\ deleting = FALSE
    /\ calendar_owner = Unset
    /\ organizer = Unset
    /\ attendeesByInstance = {}
    /\ attendees = {}
    /\ organizerPrincipal = Unset
    /\ attendee = Unset
    /\ oldcalendar = Unset
    /\ organizer_calendar = Unset
    /\ cancelledAttendees = {}
    /\ cancelQueue = {}
    /\ requestQueue = {}
    /\ outstanding = {}
    /\ sent = EmptyBag
    /\ response = <<>>
    /\ called = {}
    /\ role = Unset
    /\ organizerDiff = Unset
    /\ attendeeDiff = Unset
    /\ resource = NoCalendar
    /\ result = Unset
    /\ error = None

scheduler == <<pc, input, extracted, roles, organizerState, dispatch, organizer_calendar,
               attendeeDiff, called, result, error>>

\* logFilter wraps response.stream: _LogByteCounter(response.stream, _log)
InitByteCounter ==
    /\ NoScheduler
    /\ stream \in Streams(MaxChunks)
    /\ done = LogCallback
    /\ len = 0
    /\ deferred = <<>>
    /\ doneCalls = <<>>
    /\ events = <<>>

\* self.stream.read(): the next chunk, None once the stream has given all
nextData == IF stream = <<>> THEN NoData ELSE Data(Head(stream))

\* self.done, self.len and the calls of the done callback
counterFields == [done |-> done, len |-> len, doneCalls |-> doneCalls]

\* read() and close() are called MaxCalls times at most
moreCalls == Len(events) + Len(deferred) < MaxCalls

\* read() on a stream that answers at once: _callback(data) runs in read()
read ==
    /\ moreCalls
    /\ LET after == _callback(nextData, counterFields)
       IN /\ done' = after.done
          /\ len' = after.len
          /\ doneCalls' = after.doneCalls
    /\ events' = Append(events, [op |-> "read", data |-> nextData])
    /\ stream' = IF stream = <<>> THEN stream ELSE Tail(stream)
    /\ UNCHANGED deferred
    /\ UNCHANGED scheduler

\* read() on a stream that answers with a Deferred: _callback is added to it
readDeferred ==
    /\ moreCalls
    /\ deferred' = Append(deferred, nextData)
    /\ stream' = IF stream = <<>> THEN stream ELSE Tail(stream)
    /\ UNCHANGED <<done, len, doneCalls, events>>
    /\ UNCHANGED scheduler

\* a Deferred that read() returned fires: _callback(data) runs
deferredFires ==
    /\ \E i \in 1..Len(deferred) :
          LET after == _callback(deferred[i], counterFields)
          IN /\ done' = after.done
             /\ len' = after.len
             /\ doneCalls' = after.doneCalls
             /\ events' = Append(events, [op |-> "read", data |-> deferred[i]])
             /\ deferred' = SubSeq(deferred, 1, i - 1) \o SubSeq(deferred, i + 1, Len(deferred))
    /\ UNCHANGED stream
    /\ UNCHANGED scheduler

\* close(): the done callback if it is still there, then self.stream.close(),
\* after which the stream may or may not have anything left to give
close ==
    /\ moreCalls
    /\ LET after == closeCounter(counterFields)
       IN /\ done' = after.done
          /\ len' = after.len
          /\ doneCalls' = after.doneCalls
    /\ events' = Append(events, [op |-> "close", data |-> NoData])
    /\ stream' \in {stream, <<>>}
    /\ UNCHANGED deferred
    /\ UNCHANGED scheduler

NextByteCounter ==
    \/ read
    \/ readDeferred
    \/ deferredFires
    \/ close

SpecByteCounter == InitByteCounter /\ [][NextByteCounter]_vars

(* ------------------------------ properties ---------------------------- *)

\* the distinct organizer addresses of the components of a calendar object
OrganizerAddresses(cal) == {cal.comps[r].organizer : r \in DOMAIN cal.comps} \ {None}

\* the attendee addresses of the components of a calendar object
AttendeeAddresses(cal) == UNION {cal.comps[r].attendees : r \in DOMAIN cal.comps}

\* nothing was handed to the transport and no status was written back
NothingDispatched ==
    /\ sent = EmptyBag
    /\ outstanding = {}
    /\ "handleSchedulingResponse" \notin called
    /\ scheduleStatus = NoStatus

\* C1: a calendar object with two or more distinct organizer addresses makes
\* the call fail with single-organizer in extractCalendarData, whatever the
\* order of its components: no role is classified, no message is sent and
\* no status is written.
C1_SingleOrganizer ==
    (pc \notin {"idle", "extractCalendarData"}
        /\ Cardinality(OrganizerAddresses(calendar)) >= 2)
    => /\ pc = "failed"
       /\ error = SingleOrganizerError
       /\ role = Unset
       /\ called = {"extractCalendarData"}
       /\ result = Unset
       /\ NothingDispatched

C1_Witness ==
    /\ pc = "failed"
    /\ error = SingleOrganizerError
    /\ Cardinality(OrganizerAddresses(calendar)) >= 2
    /\ AttendeeAddresses(calendar) # {}

\* C2: when the differ answers that an organizer's update of an existing
\* resource is insignificant, the call is over: nothing is dispatched, the
\* resolver is not run, no status is written and the calendar is returned.
C2_Insignificant ==
    organizerDiff = "insignificant"
    => /\ role = "organizer"
       /\ ~deleting
       /\ pc = "done"
       /\ result = "calendar"
       /\ error = None
       /\ "findRemovedAttendees" \notin called
       /\ cancelledAttendees = {}
       /\ requestQueue = {}
       /\ NothingDispatched

C2_Witness ==
    /\ organizerDiff = "insignificant"
    /\ pc = "done"
    /\ \E a \in attendees : principalForCalendarUserAddress(a) # organizerPrincipal

\* the stored object has master attendees {A, B} and an override at R1 with
\* attendees {A, C}; the incoming one has the same master, no override and
\* the new EXDATE R1
C3_Scenario ==
    /\ pc = "processCancels"
    /\ DOMAIN resource.comps = {None, "R1"}
    /\ resource.comps[None].attendees = {AddrA, AddrB}
    /\ resource.comps["R1"].attendees = {AddrA, AddrC}
    /\ resource.exdates = {}
    /\ DOMAIN calendar.comps = {None}
    /\ calendar.comps[None].attendees = {AddrA, AddrB}
    /\ calendar.exdates = {"R1"}

\* C3 as claimed: in that scenario the cancellation set is exactly {(C, R1)}.
C3_AsClaimed == C3_Scenario => cancelledAttendees = {<<AddrC, "R1">>}

\* C3: in that scenario the cancellation set is exactly {(A, R1), (C, R1)}:
\* R1 is a newly added EXDATE, so A's place in the removed override is
\* cancelled although A is still in the master.
C3_RemovedOverrideWithExdate ==
    C3_Scenario => cancelledAttendees = {<<AddrA, "R1">>, <<AddrC, "R1">>}

C3_Witness == C3_Scenario /\ "findRemovedAttendees" \in called

\* a calendar object with a master component only and no EXDATE
NonRecurring(cal) == DOMAIN cal.comps = {None} /\ cal.exdates = {}

\* C4: for a non-recurring stored object and a non-recurring incoming one the
\* cancellation set is exactly the pairs (a, None) for the attendees a of
\* the stored object that are not attendees of the incoming one.
C4_NonRecurring ==
    (pc = "processCancels" /\ NonRecurring(resource) /\ NonRecurring(calendar))
    => cancelledAttendees =
          {<<a, None>> : a \in resource.comps[None].attendees
                                  \ calendar.comps[None].attendees}

C4_Witness ==
    /\ pc = "processCancels"
    /\ NonRecurring(resource)
    /\ NonRecurring(calendar)
    /\ resource.comps[None].attendees = {AddrA, AddrB}
    /\ calendar.comps[None].attendees = {AddrB}
    /\ cancelledAttendees = {<<AddrA, None>>}

\* C5: when the organizer deletes, the cancellation set is exactly the pairs
\* (a, None) for the attendee addresses a of the object being deleted, and
\* neither the differ nor the resolver is run.
C5_DeleteCancelsAll ==
    (role = "organizer" /\ deleting /\ pc # "doImplicitOrganizer")
    => /\ cancelledAttendees = {<<a, None>> : a \in AttendeeAddresses(calendar)}
       /\ organizerDiff = Unset
       /\ "organizerDiff" \notin called
       /\ "findRemovedAttendees" \notin called

C5_Witness ==
    /\ role = "organizer"
    /\ deleting
    /\ pc = "done"
    /\ cancelledAttendees = {<<AddrA, None>>, <<AddrB, None>>}
    /\ calendar.comps[None].attendees = {AddrA}

\* C6: no CANCEL and no REQUEST is ever handed to the transport for a
\* recipient that is one of the organizer principal's own addresses.
C6_NoSelfSend ==
    \A m \in BagToSet(sent) :
       m.method \in {"CANCEL", "REQUEST"}
       => principalForCalendarUserAddress(m.recipient) # organizerPrincipal

C6_Witness ==
    /\ role = "organizer"
    /\ pc = "done"
    /\ \E a \in attendees : principalForCalendarUserAddress(a) = organizerPrincipal
    /\ \E c \in cancelledAttendees : principalForCalendarUserAddress(c[1]) = organizerPrincipal
    /\ sent # EmptyBag

\* C7: the write-back of a response (A, s) to an organizer's send sets the
\* SCHEDULE-STATUS of the ATTENDEE properties with address A to s and
\* leaves that of every other ATTENDEE address and of ORGANIZER as it was.
C7_WriteBack ==
    [][(pc \in {"awaitCancel", "awaitRequest"} /\ pc' # pc /\ Len(response') = 1)
       => LET A == response'[1].recipient
              s == response'[1].status
          IN /\ A \in AttendeeAddresses(calendar) => scheduleStatus'.ATTENDEE[A] = s
             /\ \A b \in Addresses \ {A} :
                   scheduleStatus'.ATTENDEE[b] = scheduleStatus.ATTENDEE[b]
             /\ scheduleStatus'.ORGANIZER = scheduleStatus.ORGANIZER]_vars

C7_Witness ==
    /\ role = "organizer"
    /\ pc = "processRequests"
    /\ Len(response) = 1
    /\ scheduleStatus.ATTENDEE[response[1].recipient] = response[1].status
    /\ \E b \in AttendeeAddresses(calendar) \ {response[1].recipient} :
          scheduleStatus.ATTENDEE[b] \notin {None, response[1].status}

\* the owner is neither the organizer nor an attendee
NoRole ==
    \/ organizer = None
    \/ /\ principalForCalendarUserAddress(organizer) # calendar_owner
       /\ \A a \in attendees : principalForCalendarUserAddress(a) # calendar_owner

\* C8: when the owner is neither the organizer nor an attendee, the call
\* returns None: nothing is dispatched and no status is written.
C8_NoRoleNoAction ==
    (pc \notin {"idle", "extractCalendarData", "classify"}
        /\ error # SingleOrganizerError /\ NoRole)
    => /\ pc = "done"
       /\ result = None
       /\ role = None
       /\ error = None
       /\ "doImplicitOrganizer" \notin called
       /\ "doImplicitAttendee" \notin called
       /\ NothingDispatched

C8_Witness ==
    /\ pc = "done"
    /\ result = None
    /\ organizer = None
    /\ \E a \in attendees : principalForCalendarUserAddress(a) = calendar_owner

\* C9: the organizer flow is taken exactly when the object has an organizer
\* address that resolves to a principal that is the owner, also when the
\* owner is an attendee too; otherwise it is never entered.
C9_OrganizerFlow ==
    role # Unset
    => /\ (role = "organizer")
            <=> /\ organizer # None
                /\ principalForCalendarUserAddress(organizer) # None
                /\ principalForCalendarUserAddress(organizer) = calendar_owner
       /\ (role = "organizer")
            <=> (pc = "doImplicitOrganizer" \/ "doImplicitOrganizer" \in called)
       /\ role = "organizer" => attendee = Unset /\ "doImplicitAttendee" \notin called

C9_Witness ==
    /\ role = "organizer"
    /\ "doImplicitOrganizer" \in called
    /\ \E a \in attendees : principalForCalendarUserAddress(a) = calendar_owner

\* C10: when the organizer flow is not taken, the attendee flow is taken
\* exactly when the object has an organizer address and an attendee address
\* resolves to the owner; the attendee bound is such an address and is the
\* originator of every reply, which goes to the organizer.
C10_AttendeeFlow ==
    role \in {"attendee", None}
    => /\ (role = "attendee")
            <=> /\ organizer # None
                /\ \E a \in attendees : principalForCalendarUserAddress(a) = calendar_owner
       /\ (role = "attendee")
            <=> (pc = "doImplicitAttendee" \/ "doImplicitAttendee" \in called)
       /\ role = "attendee"
            => /\ attendee \in AttendeeAddresses(calendar)
               /\ principalForCalendarUserAddress(attendee) = calendar_owner
               /\ \A m \in BagToSet(sent) :
                     /\ m.method \in {"REPLY", "REPLY-CANCEL"}
                     /\ m.originator = attendee
                     /\ m.recipient = organizer

C10_Witness ==
    /\ role = "attendee"
    /\ pc = "done"
    /\ sent # EmptyBag
    /\ \E a \in attendees : principalForCalendarUserAddress(a) # calendar_owner

\* C11: in the attendee flow with deleting false, when the organizer's copy
\* cannot be obtained (the organizer resolves to no principal of this
\* server, or no resource with the UID is found), the call does not fail:
\* it goes on without the validation and returns the calendar.  The assert
\* of line 358 makes the call fail instead.
C11_AsClaimed ==
    (role = "attendee" /\ ~deleting /\ organizer_calendar = None)
    => /\ pc # "failed"
       /\ error = None

\* the recipients of the messages of a method handed to the transport
RecipientsOf(method) == {m.recipient : m \in {n \in BagToSet(sent) : n.method = method}}

\* the addresses of a set of (attendee, rid) pairs that are not the
\* organizer's own
NotOrganizers(pairs) ==
    {p[1] : p \in {q \in pairs : q[1] \notin calendarUserAddresses(organizerPrincipal)}}

C13_ChangeNotAllowed ==
    attendeeDiff = "not allowed"
    => /\ role = "attendee"
       /\ ~deleting
       /\ pc = "failed"
       /\ error = ValidAttendeeChangeError
       /\ result = Unset
       /\ NothingDispatched

C13_Witness ==
    /\ attendeeDiff = "not allowed"
    /\ organizer_calendar = "found"
    /\ error = ValidAttendeeChangeError
    /\ "attendeeMerge" \in called

\* C14: in the attendee flow with deleting true, one message is handed to
\* the transport in the whole call: the cancelling reply from the bound
\* attendee to the organizer.  The organizer's copy is not fetched, the
\* differ is not run and nobody else is sent anything.
C14_AttendeeDelete ==
    (role = "attendee" /\ deleting)
    => /\ pc \in {"doImplicitAttendee", "awaitOrganizer", "done"}
       /\ pc = "doImplicitAttendee" => sent = EmptyBag
       /\ pc # "doImplicitAttendee"
            => /\ BagCardinality(sent) = 1
               /\ \A m \in BagToSet(sent) :
                     /\ m.method = "REPLY-CANCEL"
                     /\ m.originator = attendee
                     /\ m.recipient = organizer
       /\ organizer_calendar = Unset
       /\ attendeeDiff = Unset
       /\ organizerDiff = Unset
       /\ called \cap {"getOrganizersCopy", "attendeeMerge", "organizerDiff",
                       "findRemovedAttendees", "doImplicitOrganizer"} = {}

\* the attendee's deletion is over and other attendees were in the object
C14_Witness ==
    /\ role = "attendee"
    /\ deleting
    /\ pc = "done"
    /\ BagCardinality(sent) = 1
    /\ scheduleStatus.ORGANIZER # None
    /\ Cardinality(AttendeeAddresses(calendar)) >= 2

\* C15: an organizer's run on a new resource has an empty cancellation set
\* and hands the transport one REQUEST, and nothing else, for every attendee
\* address that is not one of the organizer's own, also for an attendee of
\* several instances.  processRequests sends one REQUEST per (attendee,
\* rid) pair instead.
C15_AsClaimed ==
    (role = "organizer" /\ ~deleting /\ oldcalendar = None /\ pc = "done")
    => /\ cancelledAttendees = {}
       /\ RecipientsOf("CANCEL") = {}
       /\ RecipientsOf("REQUEST") = NotOrganizers(attendeesByInstance)
       /\ \A m \in BagToSet(sent) : CopiesIn(m, sent) = 1

\* C16: once the call has its calendar object, no step of any run, in
\* either role, deleting or not, whatever the transport answers, changes
\* the object's organizer, attendees, instances, recurrence-ids or exdates:
\* the steps only set SCHEDULE-STATUS parameters.
C16_OnlyStatusChanges ==
    [][pc # "idle" => calendar' = calendar]_vars

\* a run is over, statuses were written and the object has an override
C16_Witness ==
    /\ pc = "done"
    /\ result = "calendar"
    /\ BagCardinality(sent) >= 2
    /\ \E a \in AttendeeAddresses(calendar) : scheduleStatus.ATTENDEE[a] = "5.1"
    /\ getComponentInstances(calendar) # {}

\* the pairs of the stored object that the incoming object no longer has
GonePairs == getAttendeesByInstance(resource) \ getAttendeesByInstance(calendar)

\* oldInstanceSet - newInstanceSet and newExdates - oldExdates
RemovedInstances == getComponentInstances(resource) \ getComponentInstances(calendar)
AddedExdates == masterExdates(calendar) \ masterExdates(resource)

\* C17: for every stored and incoming object, findRemovedAttendees yields
\* exactly the union of (1) the gone pairs whose rid is none or is not a
\* removed instance, (2) the gone pairs of a removed instance whose
\* attendee is not in the new master or whose rid is a newly added exdate,
\* and (3) every (m, x) with m an attendee of the old master and x a newly
\* added exdate that is not a removed instance; no other pair.
C17_ResolverSet ==
    pc = "processCancels"
    => cancelledAttendees =
          {p \in GonePairs : p[2] = None \/ p[2] \notin RemovedInstances}
          \cup {p \in GonePairs :
                  /\ p[2] \in RemovedInstances
                  /\ \/ <<p[1], None>> \notin getAttendeesByInstance(calendar)
                     \/ p[2] \in AddedExdates}
          \cup {<<m, x>> : m \in {q[1] : q \in masterAttendeesByInstance(resource)},
                           x \in AddedExdates \ RemovedInstances}

\* the three sets each give a pair, and a gone pair of a removed instance
\* is left out because its attendee is in the new master
C17_Witness ==
    /\ pc = "processCancels"
    /\ \E p \in cancelledAttendees : p[2] = None
    /\ \E p \in cancelledAttendees : p[2] \in RemovedInstances
    /\ \E p \in GonePairs : p \notin cancelledAttendees

\* a newly added exdate that is not a removed instance cancels the master's
\* attendees for it
C17_WitnessExdate ==
    /\ pc = "processCancels"
    /\ \E p \in cancelledAttendees : p[2] \in AddedExdates \ RemovedInstances

\* the SCHEDULE-STATUS parameters after every entry of a response has been
\* written, in arrival order, on the properties propname of its recipient
RECURSIVE WriteBackAll(_, _, _, _)
WriteBackAll(cal, params, entries, propname) ==
    IF entries = <<>>
    THEN params
    ELSE LET last == entries[Len(entries)]
         IN setParameterToValueForPropertyWithValue(
                cal,
                WriteBackAll(cal, params, SubSeq(entries, 1, Len(entries) - 1), propname),
                last.status, propname, last.recipient)

\* C18: the write-back applies every entry of the response, the last one in
\* arrival order winning for a recipient that repeats, and a response with
\* no entry leaves the object as it was without an error.
\* handleSchedulingResponse writes the last entry only and raises NameError
\* on a response with no entry.
C18_AsClaimed ==
    (pc \in {"written", "failed"} /\ "handleSchedulingResponse" \in called)
    => /\ pc = "written"
       /\ error = None
       /\ scheduleStatus =
             WriteBackAll(calendar, NoStatus, response,
                          IF role = "organizer" THEN "ATTENDEE" ELSE "ORGANIZER")

\* the rids the cancellation set pairs with a recipient
CancelledRids(recipient) == {p[2] : p \in {q \in cancelledAttendees : q[1] = recipient}}

\* the CANCEL messages handed to the transport
Cancels == {m \in BagToSet(sent) : m.method = "CANCEL"}

\* C19: however many pairs the cancellation set has for a recipient, the
\* recipient is sent at most one CANCEL; the CANCEL is for the whole series
\* when one of the recipient's pairs has rid none, and otherwise for
\* exactly the rids paired with the recipient.
C19_OneCancelPerRecipient ==
    \A m \in Cancels :
       /\ CopiesIn(m, sent) = 1
       /\ \A n \in Cancels : n.recipient = m.recipient => n = m
       /\ CancelledRids(m.recipient) # {}
       /\ m.rids = IF None \in CancelledRids(m.recipient)
                   THEN {None}
                   ELSE CancelledRids(m.recipient)

\* one recipient has two pairs, one of them for the whole series, and
\* another recipient is cancelled for an instance only
C19_Witness ==
    /\ pc = "done"
    /\ \E m \in Cancels : CancelledRids(m.recipient) = {None} \cup RIDs
    /\ \E m \in Cancels : m.rids \subseteq RIDs

\* an organizer's update of an existing resource that the differ found
\* significant
SignificantUpdate ==
    /\ role = "organizer"
    /\ ~deleting
    /\ oldcalendar = "resource"
    /\ organizerDiff = "significant"

\* C20, as claimed: in a significant update by the organizer no recipient of
\* the cancellation set is sent a REQUEST as well, so nobody is sent two
\* messages in one call.
C20_AsClaimed ==
    SignificantUpdate
    => RecipientsOf("CANCEL") \cap RecipientsOf("REQUEST") = {}

\* C20: in a significant update by the organizer the REQUESTs go to the
\* attendees of the new object and to nobody else: a recipient of the
\* cancellation set that is in no instance of the new object is sent no
\* REQUEST, and the recipients sent both a CANCEL and a REQUEST are exactly
\* those of the cancellation set that are still attendees of the new object.
C20_RequestsToNewAttendees ==
    SignificantUpdate
    => /\ RecipientsOf("REQUEST") \subseteq AttendeeAddresses(calendar)
       /\ (NotOrganizers(cancelledAttendees) \ AttendeeAddresses(calendar))
             \cap RecipientsOf("REQUEST") = {}
       /\ pc = "done"
            => RecipientsOf("CANCEL") \cap RecipientsOf("REQUEST")
                  = NotOrganizers(cancelledAttendees) \cap AttendeeAddresses(calendar)

\* one recipient was sent a CANCEL and a REQUEST, another a CANCEL only
C20_Witness ==
    /\ SignificantUpdate
    /\ pc = "done"
    /\ RecipientsOf("CANCEL") \cap RecipientsOf("REQUEST") # {}
    /\ RecipientsOf("CANCEL") \ RecipientsOf("REQUEST") # {}

\* in the organizer flow: at most one send is outstanding, it is outstanding
\* exactly while the call waits for its response, and once a REQUEST has
\* been sent no CANCEL is still to be sent or outstanding
OneSendAtATime ==
    /\ Cardinality(outstanding) <= 1
    /\ outstanding # {} <=> pc \in {"awaitCancel", "awaitRequest"}
    /\ \A m \in outstanding :
          m.method = IF pc = "awaitCancel" THEN "CANCEL" ELSE "REQUEST"
    /\ RecipientsOf("REQUEST") # {}
          => /\ cancelQueue = {}
             /\ \A m \in outstanding : m.method = "REQUEST"

\* a step that hands a message to the transport finds no send outstanding,
\* and a step that ends a send is the write-back of its response
SendAfterWriteBack ==
    /\ sent' # sent
          => /\ outstanding = {}
             /\ Cardinality(outstanding') = 1
             /\ scheduleStatus' = scheduleStatus
    /\ outstanding' # outstanding /\ sent' = sent
          => /\ outstanding' = {}
             /\ "handleSchedulingResponse" \in called'
             /\ \A m \in outstanding : response'[1].recipient = m.recipient
    /\ scheduleStatus' # scheduleStatus
          => outstanding # {} /\ outstanding' = {}

\* C21: in the organizer flow every CANCEL is sent and its status written
\* back before the first REQUEST is sent, and in each phase the write-back
\* of a send is over before the next send: at most one send is outstanding
\* and one write-back runs at a time.
C21_Ordering ==
    /\ [](role = "organizer" => OneSendAtATime)
    /\ [][role = "organizer" => SendAfterWriteBack]_vars

\* a REQUEST is outstanding after two CANCELs and a REQUEST were written back
C21_Witness ==
    /\ role = "organizer"
    /\ pc = "awaitRequest"
    /\ Cardinality(Cancels) >= 2
    /\ BagCardinality(sent) >= 4

\* C22: in the attendee flow with deleting false and the organizer's copy
\* at hand, an allowed change that needs a message makes the call send one
\* REPLY, from the attendee to the organizer, and nothing else; an allowed
\* change that needs none makes it return the calendar with nothing sent
\* and no status written.
C22_ReplyWhenNeeded ==
    /\ attendeeDiff \in {"allowed, iTIP", "allowed, no iTIP"}
          => /\ role = "attendee"
             /\ ~deleting
             /\ organizer_calendar = "found"
             /\ pc # "failed"
             /\ error = None
    /\ attendeeDiff = "allowed, iTIP"
          => /\ pc \in {"awaitOrganizer", "done"}
             /\ BagCardinality(sent) = 1
             /\ \A m \in BagToSet(sent) :
                   /\ m.method = "REPLY"
                   /\ m.originator = attendee
                   /\ m.recipient = organizer
    /\ attendeeDiff = "allowed, no iTIP"
          => /\ pc = "done"
             /\ result = "calendar"
             /\ NothingDispatched

\* a reply was sent and answered for a change that needed one
C22_Witness ==
    /\ attendeeDiff = "allowed, iTIP"
    /\ pc = "done"
    /\ result = "calendar"
    /\ scheduleStatus.ORGANIZER # None

\* a change that needed no reply ended the call
C22_WitnessNoReply ==
    /\ attendeeDiff = "allowed, no iTIP"
    /\ pc = "done"

\* C23: in an organizer's run with deleting true no REQUEST is sent: every
\* message is a CANCEL from the organizer generated from the object being
\* deleted, processRequests is not entered, and the call returns once the
\* last CANCEL has been written back.
C23_DeleteSendsNoRequest ==
    (role = "organizer" /\ deleting)
    => /\ \A m \in BagToSet(sent) :
             /\ m.method = "CANCEL"
             /\ m.source = "oldcalendar"
             /\ m.originator = organizer
       /\ sent # EmptyBag => oldcalendar = "calendar"
       /\ pc \in {"doImplicitOrganizer", "processCancels", "awaitCancel", "done"}
       /\ requestQueue = {}
       /\ pc = "done"
            => /\ result = "calendar"
               /\ cancelQueue = {}
               /\ outstanding = {}
               /\ sent # EmptyBag => "handleSchedulingResponse" \in called

\* a deletion by the organizer is over after two CANCELs
C23_Witness ==
    /\ role = "organizer"
    /\ deleting
    /\ pc = "done"
    /\ Cardinality(Cancels) >= 2
    /\ \E a \in AttendeeAddresses(calendar) : scheduleStatus.ATTENDEE[a] # None

\* a read that gave the end of the stream, or a close
IsEnd(e) == e.op = "close" \/ e.data.isNone

\* the bytes of the chunks that the first n events gave
RECURSIVE BytesGiven(_)
BytesGiven(n) ==
    IF n = 0 THEN 0 ELSE BytesGiven(n - 1) + Len(events[n].data.bytes)

\* C24: whatever reads and closes are made on a _LogByteCounter, the done
\* callback is called at most once: at the first read that gives the end of
\* the stream, with (True, n), or at the first close if it comes before,
\* with (False, n), n being the bytes of the chunks the reads gave until
\* then; no later end of stream and no later close calls it again.
C24_DoneAtMostOnce ==
    pc = "idle" /\ events # <<>>
    => LET ends == {i \in 1..Len(events) : IsEnd(events[i])}
       IN /\ Len(doneCalls) <= 1
          /\ doneCalls = <<>> <=> ends = {}
          /\ doneCalls = <<>> <=> done = LogCallback
          /\ doneCalls # <<>>
               => LET first == CHOOSE i \in ends : \A j \in ends : i <= j
                  IN doneCalls[1] = <<events[first].op = "read", BytesGiven(first - 1)>>

\* the callback was called once, with bytes counted, and a close and
\* another end of the stream came after
C24_Witness ==
    /\ Len(doneCalls) = 1
    /\ doneCalls[1][2] >= 2
    /\ Cardinality({i \in 1..Len(events) : IsEnd(events[i])}) >= 3
    /\ \E i \in 1..Len(events) : events[i].op = "close"
    /\ \E i \in 1..Len(events) : events[i].op = "read" /\ events[i].data.isNone

====
